---- MODULE Spec2Model ----
(***************************************************************************)
(* State-machine model of fedimint-observer's ingestion pipeline           *)
(* (src/src/federation/observer.rs): the federation registry               *)
(* (add_federation / new), the per-federation session synchronizer         *)
(* (observe_federation / process_session / process_transaction) and the    *)
(* block-time synchronizer (fetch_block_times).                            *)
(***************************************************************************)
EXTENDS Integers, Sequences, FiniteSets, TLC

\* ------------------------------------------------------------------ bounds
\* Number of sessions federation fedA's consensus has produced so far.
NumSessions == 2
\* Width of the prefetch window, `.buffered(32)` in the source, scaled down.
Window == 2
\* The chain tip seen by the block-time job lies in FLOOR+1 .. FLOOR+MaxBlocks
\* in Spec and in FLOOR+1 .. FLOOR+MaxBackfill in BlockSpec.
MaxBlocks == 1
MaxBackfill == 5
\* Native amounts of the payloads DecodeSpec draws: 0 .. MaxAmount.
MaxAmount == 2
\* Connections of the shared pool (AnyPool::connect), scaled down so that
\* one held connection exhausts it.
PoolSize == 1

\* ------------------------------------------------------- program constants
\* `unwrap_or(820_000)`: the height used when block_times is empty.
FLOOR == 820000
\* `.buffered(4)`: width of the header prefetch window.
BlockWindow == 4

Feds == {"fedA", "fedB"}
\* The add_federation requests the HTTP surface may have in flight at once.
Calls == {"req1", "req2"}
\* SQL NULL / Option::None; a present value v is Some(v).
NULL == << >>
Some(v) == <<v>>

VARIABLES
    up,                  \* the process is running (new() has returned)
    federations,         \* table federations: set of federation_id (PK)
    sessions,            \* table sessions: per federation, session_index in insertion order
    transactions,        \* table transactions: set of rows
    transaction_inputs,  \* table transaction_inputs: set of rows
    transaction_outputs, \* table transaction_outputs: set of rows
    block_times,         \* table block_times: block_height in insertion order
    observers,           \* task group: per federation, the observer tasks spawned
    block_task,          \* task group: the "fetch block times" task
    calls,               \* add_federation requests in flight or returned
    consensus            \* per federation, the session outcomes its API serves

vars == <<up, federations, sessions, transactions, transaction_inputs,
          transaction_outputs, block_times, observers, block_task, calls,
          consensus>>

tables == <<federations, sessions, transactions, transaction_inputs,
            transaction_outputs, block_times>>

session_tables == <<sessions, transactions, transaction_inputs, transaction_outputs>>

Range(s) == {s[j] : j \in DOMAIN s}

Max(S) == CHOOSE x \in S : \A y \in S : y <= x

\* ------------------------------------------------- remote consensus data
\* Number of sessions federation f has produced in the reference log.
ProducedSessions(f) == IF f = "fedA" THEN NumSessions ELSE 1

\* Number of sessions federation f's API serves: await_block(k) can answer
\* for k < RemoteSessions(f) and only waits or fails above.
RemoteSessions(f) == Len(consensus[f])

\* The reference log: the items of session k of federation f.  Inputs and
\* outputs carry their resolved module kind, the variant of their payload
\* ("v0" or the fallback "default" variant) and its native amount (msat for
\* ln and mint, sat for wallet); an ln output also its v0 variant and, for a
\* contract, the kind of contract.
SignedSessionOutcome(f, k) ==
    CASE k = 0 -> << [item |-> "transaction", txid |-> <<f, 0, 0>>,
                      inputs  |-> << [kind |-> "wallet", version |-> "v0", value |-> 1] >>,
                      outputs |-> << >>] >>
      [] k = 2 -> << [item |-> "module"],
                     [item |-> "transaction", txid |-> <<f, 2, 1>>,
                      inputs  |-> << >>,
                      outputs |-> << [kind |-> "mint", version |-> "v0", variant |-> "none",
                                      contract |-> "none", value |-> 1000] >>] >>
      [] OTHER -> << [item |-> "module"] >>

\* What await_block(session_index) of federation f answers with.
await_block(f, session_index) ==
    IF session_index < Len(consensus[f]) THEN consensus[f][session_index + 1] ELSE << >>

\* ------------------------------------------------------------- decoder
\* The module kinds process_transaction has a match arm for.
KnownKinds == {"ln", "mint", "wallet"}

\* `.maybe_v0_ref().expect("Not v0")` in the arm of a known kind: the decoder
\* panics on a payload that is not the v0 variant of its module.
PayloadPanics(kind, payload) == kind \in KnownKinds /\ payload.version # "v0"

\* SatToMsat without the conversion.
SatToMsatUnconverted(value) == value

\* `tx_output().value * 1000` and `amount().to_sat() * 1000`
SatToMsat(value) == value * 1000

\* InputAmountMsat with an amount of zero for the kinds it does not know.
InputAmountMsatZeroDefault(input) ==
    CASE input.kind = "ln"     -> Some(input.value)
      [] input.kind = "mint"   -> Some(input.value)
      [] input.kind = "wallet" -> Some(SatToMsat(input.value))
      [] OTHER                 -> Some(0)

\* process_transaction, the `match kind.as_str()` over an input.
InputAmountMsat(input) ==
    CASE input.kind = "ln"     -> Some(input.value)
      [] input.kind = "mint"   -> Some(input.value)
      [] input.kind = "wallet" -> Some(SatToMsat(input.value))
      [] OTHER                 -> NULL

\* ContractSubtype with the two arms exchanged.
ContractSubtypeSwapped(contract) ==
    CASE contract = "Incoming" -> "outgoing"
      [] contract = "Outgoing" -> "incoming"

\* `match contract.contract { Contract::Incoming(_) => "incoming", .. }`
ContractSubtype(contract) ==
    CASE contract = "Incoming" -> "incoming"
      [] contract = "Outgoing" -> "outgoing"

\* process_transaction, the `match kind.as_str()` over an output:
\* <<maybe_amount_msat, maybe_subtype>>.
OutputAmountSubtype(output) ==
    CASE output.kind = "ln" ->
            (CASE output.variant = "Contract" ->
                      <<Some(output.value), Some(ContractSubtype(output.contract))>>
               [] output.variant = "Offer" -> <<Some(0), NULL>>
               [] output.variant = "CancelOutgoing" -> <<Some(0), NULL>>)
      [] output.kind = "mint"   -> <<Some(output.value), NULL>>
      [] output.kind = "wallet" -> <<Some(SatToMsat(output.value)), NULL>>
      [] OTHER                  -> <<NULL, NULL>>

\* The point where the decoder panics instead of executing a statement.
Panic == [table |-> "panic", row |-> NULL]

\* The statements process_transaction executes on dbtx, in order; a payload
\* the decoder panics on takes the place of its INSERT.
process_transaction(f, session_index, item_index, transaction) ==
    << [table |-> "transactions",
        row |-> [txid |-> transaction.txid, federation_id |-> f,
                 session_index |-> session_index, item_index |-> item_index]] >>
    \o [in_idx \in 1..Len(transaction.inputs) |->
          IF PayloadPanics(transaction.inputs[in_idx].kind, transaction.inputs[in_idx])
          THEN Panic
          ELSE [table |-> "transaction_inputs",
                row |-> [federation_id |-> f, txid |-> transaction.txid,
                         idx |-> in_idx - 1,
                         kind |-> transaction.inputs[in_idx].kind,
                         subtype |-> NULL,
                         amount_msat |-> InputAmountMsat(transaction.inputs[in_idx])]]]
    \o [out_idx \in 1..Len(transaction.outputs) |->
          IF PayloadPanics(transaction.outputs[out_idx].kind, transaction.outputs[out_idx])
          THEN Panic
          ELSE [table |-> "transaction_outputs",
                row |-> [federation_id |-> f, txid |-> transaction.txid,
                         idx |-> out_idx - 1,
                         kind |-> transaction.outputs[out_idx].kind,
                         subtype |-> OutputAmountSubtype(transaction.outputs[out_idx])[2],
                         amount_msat |-> OutputAmountSubtype(transaction.outputs[out_idx])[1]]]]

\* The `for (item_idx, item)` loop of process_session from item n on.
RECURSIVE ItemStatements(_, _, _, _)
ItemStatements(f, session_index, items, n) ==
    IF n > Len(items) THEN << >>
    ELSE (IF items[n].item = "transaction"
          THEN process_transaction(f, session_index, n - 1, items[n])
          ELSE << >>)
         \o ItemStatements(f, session_index, items, n + 1)

\* UpToPanic if the payload that fails to decode were dropped and the rest
\* of the session processed.
DropPanics(stmts) == SelectSeq(stmts, LAMBDA stmt : stmt.table # "panic")

\* A panic ends the closure: nothing after it is executed.
UpToPanic(stmts) ==
    LET panics == {j \in DOMAIN stmts : stmts[j].table = "panic"}
    IN IF panics = {} THEN stmts
       ELSE SubSeq(stmts, 1, CHOOSE j \in panics : \A m \in panics : j <= m)

\* Every statement process_session executes inside its transaction for the
\* outcome of one session.
process_session(f, session_index, signed_session_outcome) ==
    UpToPanic(<< [table |-> "sessions", row |-> session_index] >>
              \o ItemStatements(f, session_index, signed_session_outcome, 1))

SessionStatements(f, session_index) ==
    process_session(f, session_index, await_block(f, session_index))

\* The rows of one table among the first n statements of a session.
StatementRows(f, session_index, n, table) ==
    LET stmts == SessionStatements(f, session_index)
    IN {stmts[j].row : j \in {j \in 1..n : stmts[j].table = table}}

\* ------------------------------------------------------ persistence layer
\* PRIMARY KEY (federation_id, session_index) of table sessions.
SessionsPrimaryKey(f, session_index) == session_index \notin Range(sessions[f])

\* PRIMARY KEY (federation_id) of table federations.
FederationsPrimaryKey(f) == f \notin federations

\* A table after the transaction of session k of f commits its n statements.
TableAfterCommit(table, rows, f, k, n) ==
    IF table = "sessions" THEN Append(rows, k)
    ELSE rows \cup StatementRows(f, k, n, table)

\* TableAfterRollback as it would be without the enclosing transaction:
\* every statement already executed stays.
TableKeepsPartial(table, rows, f, k, n) ==
    IF table = "sessions" THEN (IF n >= 1 THEN Append(rows, k) ELSE rows)
    ELSE rows \cup StatementRows(f, k, n, table)

\* A table after the transaction of session k of f is dropped with n
\* statements executed: sqlx rolls the transaction back.
TableAfterRollback(table, rows, f, k, n) == rows

\* federation_session_count without the `+ 1`: the last session, not the next.
LastSessionIndex(f) ==
    IF sessions[f] = << >> THEN 0 ELSE Max(Range(sessions[f]))

\* SELECT COALESCE(MAX(session_index), -1) ... + 1
federation_session_count(f) ==
    (IF sessions[f] = << >> THEN -1 ELSE Max(Range(sessions[f]))) + 1

\* ------------------------------------------------------------ task group
\* The "fetch block times" task outside a pass.
BlockTask(pc) ==
    [pc |-> pc, next_block_height |-> 0, current_block_height |-> 0,
     head |-> 0, buf |-> << >>]

\* -------------------------------------------------- session synchronizer
\* The task spawn_observer puts into the task group.
NewObserver ==
    [pc |-> "start", next_session |-> 0, head |-> 0, buf |-> << >>,
     session_index |-> 0, stmt |-> 0]

\* spawn_observer: one more task for federation f.
spawn_observer(tasks, f) == [tasks EXCEPT ![f] = Append(@, NewObserver)]

\* Buffered::poll_next: pull new fetch futures from `next_session..` until
\* the window is full.  buf[j] is the fetch of session head + j - 1.
BufferedFill(buf) == buf \o [j \in 1..(Window - Len(buf)) |-> "pending"]

\* observe_federation up to the first poll of session_stream.
ObserveStart(f, i) ==
    /\ up
    /\ i \in DOMAIN observers[f]
    /\ observers[f][i].pc = "start"
    /\ observers' = [observers EXCEPT ![f][i] =
            [@ EXCEPT !.pc = "stream",
                      !.next_session = federation_session_count(f),
                      !.head = federation_session_count(f),
                      !.buf = BufferedFill(<< >>)]]
    /\ UNCHANGED <<consensus, up, tables, block_task, calls>>

\* A finished fetch; "ready_early" records that it finished while the fetch
\* of a lower index of the window had not.
Ready == {"ready", "ready_early"}

\* An await_block(session_index) attempt inside retry() answers.
AwaitBlockOk(f, i, j) ==
    /\ up
    /\ i \in DOMAIN observers[f]
    /\ observers[f][i].pc = "stream"
    /\ j \in DOMAIN observers[f][i].buf
    /\ observers[f][i].buf[j] = "pending"
    /\ observers[f][i].head + j - 1 < RemoteSessions(f)
    /\ observers' = [observers EXCEPT ![f][i].buf[j] =
            IF \A m \in 1..(j - 1) : observers[f][i].buf[m] \in Ready
            THEN "ready" ELSE "ready_early"]
    /\ UNCHANGED <<consensus, up, tables, block_task, calls>>

\* FetchAfterError if retry() gave up and `.expect` panicked: the task ends.
FetchErrorPanics(task, j) ==
    [task EXCEPT !.pc = "done", !.next_session = 0, !.buf = << >>]

\* FetchAfterError if the failed fetch were dropped from the window.
FetchSkipsIndex(task, j) ==
    [task EXCEPT !.buf = SubSeq(@, 1, j - 1) \o SubSeq(@, j + 1, Len(@)) \o <<"pending">>]

\* What a failed await_block attempt does to the fetch: retry() sleeps.
FetchAfterError(task, j) == [task EXCEPT !.buf[j] = "backoff"]

\* An await_block(session_index) attempt inside retry() fails.
AwaitBlockErr(f, i, j) ==
    /\ up
    /\ i \in DOMAIN observers[f]
    /\ observers[f][i].pc = "stream"
    /\ j \in DOMAIN observers[f][i].buf
    /\ observers[f][i].buf[j] = "pending"
    /\ observers' = [observers EXCEPT ![f][i] = FetchAfterError(@, j)]
    /\ UNCHANGED <<consensus, up, tables, block_task, calls>>

\* RetrySleep if retry() made no further attempt after a failure.
RetryNever(f, i, j) == FALSE /\ UNCHANGED vars

\* retry(): the fixed one-second sleep ends and the next attempt starts.
RetrySleep(f, i, j) ==
    /\ up
    /\ i \in DOMAIN observers[f]
    /\ observers[f][i].pc = "stream"
    /\ j \in DOMAIN observers[f][i].buf
    /\ observers[f][i].buf[j] = "backoff"
    /\ observers' = [observers EXCEPT ![f][i].buf[j] = "pending"]
    /\ UNCHANGED <<consensus, up, tables, block_task, calls>>

\* NextReady as FuturesUnordered would have it: any finished fetch.
NextReadyUnordered(buf) == {j \in DOMAIN buf : buf[j] \in Ready}

\* FuturesOrdered: the position of the buffer whose result is yielded next.
NextReady(buf) == IF buf # << >> /\ buf[1] \in Ready THEN {1} ELSE {}

\* StreamNext if Buffered pulled the next fetch as soon as it yielded one,
\* without waiting to be polled again.
StreamNextRefills(f, i) ==
    /\ up
    /\ i \in DOMAIN observers[f]
    /\ observers[f][i].pc = "stream"
    /\ \E j \in NextReady(observers[f][i].buf) :
         observers' = [observers EXCEPT ![f][i] =
            [@ EXCEPT !.pc = "process",
                      !.session_index = observers[f][i].head + j - 1,
                      !.head = observers[f][i].head + j,
                      !.buf = BufferedFill(
                                SubSeq(observers[f][i].buf, 1, j - 1)
                                \o SubSeq(observers[f][i].buf, j + 1, Len(observers[f][i].buf))),
                      !.stmt = 0]]
    /\ UNCHANGED <<consensus, up, tables, block_task, calls>>

\* session_stream.next() yields (session_index, outcome); process_session
\* acquires a connection and opens its transaction.
StreamNext(f, i) ==
    /\ up
    /\ i \in DOMAIN observers[f]
    /\ observers[f][i].pc = "stream"
    /\ \E j \in NextReady(observers[f][i].buf) :
         observers' = [observers EXCEPT ![f][i] =
            [@ EXCEPT !.pc = "process",
                      !.session_index = observers[f][i].head + j - 1,
                      !.head = observers[f][i].head + j,
                      !.buf = SubSeq(observers[f][i].buf, 1, j - 1)
                              \o SubSeq(observers[f][i].buf, j + 1, Len(observers[f][i].buf)),
                      !.stmt = 0]]
    /\ UNCHANGED <<consensus, up, tables, block_task, calls>>

\* process_session / process_transaction: the next INSERT on dbtx.
Execute(f, i) ==
    /\ up
    /\ i \in DOMAIN observers[f]
    /\ observers[f][i].pc = "process"
    /\ observers[f][i].stmt < Len(SessionStatements(f, observers[f][i].session_index))
    /\ SessionStatements(f, observers[f][i].session_index)[observers[f][i].stmt + 1] # Panic
    /\ observers[f][i].stmt = 0 => SessionsPrimaryKey(f, observers[f][i].session_index)
    /\ observers' = [observers EXCEPT ![f][i].stmt = @ + 1]
    /\ UNCHANGED <<consensus, up, tables, block_task, calls>>

\* process_session: the closure returns Ok and the transaction commits;
\* the loop of observe_federation polls session_stream again.
Commit(f, i) ==
    LET t == observers[f][i]
        n == Len(SessionStatements(f, t.session_index))
    IN
    /\ up
    /\ i \in DOMAIN observers[f]
    /\ t.pc = "process"
    /\ t.stmt = n
    /\ SessionsPrimaryKey(f, t.session_index)
    /\ sessions' = [sessions EXCEPT ![f] =
            TableAfterCommit("sessions", @, f, t.session_index, n)]
    /\ transactions' =
            TableAfterCommit("transactions", transactions, f, t.session_index, n)
    /\ transaction_inputs' =
            TableAfterCommit("transaction_inputs", transaction_inputs, f, t.session_index, n)
    /\ transaction_outputs' =
            TableAfterCommit("transaction_outputs", transaction_outputs, f, t.session_index, n)
    /\ observers' = [observers EXCEPT ![f][i] =
            [@ EXCEPT !.pc = "stream", !.buf = BufferedFill(@)]]
    /\ UNCHANGED <<consensus, up, federations, block_times, block_task, calls>>

\* PersistenceError if the error were logged and the loop went on to the
\* next session.
PersistenceErrorSkips(f, i) ==
    /\ up
    /\ i \in DOMAIN observers[f]
    /\ observers[f][i].pc \in {"start", "process"}
    /\ observers' = [observers EXCEPT ![f][i] =
            [@ EXCEPT !.pc = "stream", !.buf = BufferedFill(@)]]
    /\ UNCHANGED <<consensus, up, tables, block_task, calls>>

\* PersistenceError if the error took the whole process down.
PersistenceErrorAborts(f, i) ==
    /\ up
    /\ i \in DOMAIN observers[f]
    /\ observers[f][i].pc \in {"start", "process"}
    /\ up' = FALSE
    /\ observers' = [g \in Feds |-> << >>]
    /\ block_task' = BlockTask("off")
    /\ calls' = [c \in DOMAIN calls |-> [pc |-> "idle", invite |-> "none", ret |-> "none"]]
    /\ UNCHANGED <<consensus, tables>>

\* A persistence operation of the task fails (acquiring the connection, a
\* statement, the commit, or the query of federation_session_count): `?`
\* returns the error from observe_federation, the transaction is dropped,
\* spawn_observer logs "Observer errored" and the task ends.  The ended task
\* keeps where it failed (head, session_index, stmt), as the logged error does.
PersistenceError(f, i) ==
    LET t == observers[f][i]
    IN
    /\ up
    /\ i \in DOMAIN observers[f]
    /\ t.pc \in {"start", "process"}
    /\ sessions' = [sessions EXCEPT ![f] =
            IF t.pc = "process"
            THEN TableAfterRollback("sessions", @, f, t.session_index, t.stmt)
            ELSE @]
    /\ transactions' =
            (IF t.pc = "process"
             THEN TableAfterRollback("transactions", transactions, f, t.session_index, t.stmt)
             ELSE transactions)
    /\ transaction_inputs' =
            (IF t.pc = "process"
             THEN TableAfterRollback("transaction_inputs", transaction_inputs, f, t.session_index, t.stmt)
             ELSE transaction_inputs)
    /\ transaction_outputs' =
            (IF t.pc = "process"
             THEN TableAfterRollback("transaction_outputs", transaction_outputs, f, t.session_index, t.stmt)
             ELSE transaction_outputs)
    /\ observers' = [observers EXCEPT ![f][i] =
            [@ EXCEPT !.pc = "done", !.next_session = 0, !.buf = << >>]]
    /\ UNCHANGED <<consensus, up, federations, block_times, block_task, calls>>

\* process_transaction panics on a payload (`expect`) while it processes a
\* session: the task unwinds, which drops the open transaction (sqlx rolls it
\* back), and the runtime ends this task only.  The panic does not pass
\* through the `if let Err` of spawn_observer.
DecodePanic(f, i) ==
    LET t == observers[f][i]
        stmts == SessionStatements(f, t.session_index)
    IN
    /\ up
    /\ i \in DOMAIN observers[f]
    /\ t.pc = "process"
    /\ t.stmt < Len(stmts)
    /\ stmts[t.stmt + 1] = Panic
    /\ sessions' = [sessions EXCEPT ![f] =
            TableAfterRollback("sessions", @, f, t.session_index, t.stmt)]
    /\ transactions' =
            TableAfterRollback("transactions", transactions, f, t.session_index, t.stmt)
    /\ transaction_inputs' =
            TableAfterRollback("transaction_inputs", transaction_inputs, f, t.session_index, t.stmt)
    /\ transaction_outputs' =
            TableAfterRollback("transaction_outputs", transaction_outputs, f, t.session_index, t.stmt)
    /\ observers' = [observers EXCEPT ![f][i] =
            [@ EXCEPT !.pc = "panicked", !.next_session = 0, !.buf = << >>]]
    /\ UNCHANGED <<consensus, up, federations, block_times, block_task, calls>>

\* ------------------------------------------------------------- registry
IdleCall == [pc |-> "idle", invite |-> "none", ret |-> "none"]

\* get_federation(federation_id).is_some()
get_federation(f) == f \in federations

\* add_federation when get_federation finds the federation: Ok(id) at once.
AddFederationKnown(c, f) ==
    /\ up
    /\ calls[c].pc = "idle"
    /\ get_federation(f)
    /\ calls' = [calls EXCEPT ![c] = [pc |-> "idle", invite |-> f, ret |-> "ok"]]
    /\ UNCHANGED <<consensus, up, tables, observers, block_task>>

\* add_federation when get_federation finds nothing and the config download
\* succeeds: the request is now about to INSERT.
AddFederationDownload(c, f) ==
    /\ up
    /\ calls[c].pc = "idle"
    /\ ~get_federation(f)
    /\ calls' = [calls EXCEPT ![c] = [pc |-> "insert", invite |-> f, ret |-> "none"]]
    /\ UNCHANGED <<consensus, up, tables, observers, block_task>>

\* AfterDownloadError if the row were inserted before the download.
DownloadErrorLeavesRow(c, f) ==
    /\ calls' = [calls EXCEPT ![c] = [pc |-> "idle", invite |-> f, ret |-> "download_err"]]
    /\ federations' = federations \cup {f}
    /\ UNCHANGED <<consensus, up, session_tables, block_times, observers, block_task>>

\* The state a request leaves behind when download_from_invite_code fails.
AfterDownloadError(c, f) ==
    /\ calls' = [calls EXCEPT ![c] = [pc |-> "idle", invite |-> f, ret |-> "download_err"]]
    /\ UNCHANGED <<consensus, up, tables, observers, block_task>>

\* add_federation when get_federation finds nothing and
\* ClientConfig::download_from_invite_code fails: `?` returns the error.
AddFederationDownloadErr(c, f) ==
    /\ up
    /\ calls[c].pc = "idle"
    /\ ~get_federation(f)
    /\ AfterDownloadError(c, f)

\* AddFederationInsert if the result of the INSERT were not checked: the
\* observer is spawned and Ok(id) returned whether the row went in or not.
AddFederationInsertUnchecked(c) ==
    /\ up
    /\ calls[c].pc = "insert"
    /\ federations' = federations \cup {calls[c].invite}
    /\ observers' = spawn_observer(observers, calls[c].invite)
    /\ calls' = [calls EXCEPT ![c].pc = "idle", ![c].ret = "ok"]
    /\ UNCHANGED <<consensus, up, session_tables, block_times, block_task>>

\* add_federation from INSERT INTO federations on: the insert, then
\* spawn_observer and Ok(id); a failed insert returns the error.
AddFederationInsert(c) ==
    /\ up
    /\ calls[c].pc = "insert"
    /\ IF FederationsPrimaryKey(calls[c].invite)
       THEN /\ federations' = federations \cup {calls[c].invite}
            /\ observers' = spawn_observer(observers, calls[c].invite)
            /\ calls' = [calls EXCEPT ![c].pc = "idle", ![c].ret = "ok"]
       ELSE /\ calls' = [calls EXCEPT ![c].pc = "idle", ![c].ret = "insert_err"]
            /\ UNCHANGED <<consensus, federations, observers>>
    /\ UNCHANGED <<consensus, up, session_tables, block_times, block_task>>

\* --------------------------------------------------- block-time synchronizer
NewBlockTask == BlockTask("loop")

\* PRIMARY KEY (block_height) of table block_times.
BlockTimesPrimaryKey(block_height) == block_height \notin Range(block_times)

\* SELECT MAX(block_height): None when the table is empty.
last_fetched_block_height ==
    IF block_times = << >> THEN NULL ELSE Some(Max(Range(block_times)))

\* The heights esplora's get_height may report: the chain is past FLOOR and
\* never shrinks below what was already persisted.
TipHeights ==
    {h \in Nat : h > FLOOR /\ \A b \in Range(block_times) : b <= h}

\* ResumeHeight without the `+ 1`: the last height fetched, not the next.
ResumeHeightNoIncrement ==
    IF last_fetched_block_height = NULL THEN FLOOR ELSE last_fetched_block_height[1]

\* `self.last_fetched_block_height().await?.unwrap_or(820_000) + 1`
ResumeHeight ==
    (IF last_fetched_block_height = NULL THEN FLOOR ELSE last_fetched_block_height[1]) + 1

\* BlockRange as `next_block_height..current_block_height`: without the tip.
BlockRangeExclusive(next_block_height, current_block_height) ==
    next_block_height..(current_block_height - 1)

\* `next_block_height..=current_block_height`
BlockRange(next_block_height, current_block_height) ==
    next_block_height..current_block_height

\* Buffered::poll_next on block_stream: pull header fetches for the next
\* heights of the range until the window is full.  buf[j] is the fetch of
\* height head + j - 1.
BlockBufferedFill(task) ==
    LET rest == {h \in BlockRange(task.next_block_height, task.current_block_height) :
                    h >= task.head + Len(task.buf)}
        room == BlockWindow - Len(task.buf)
        more == IF Cardinality(rest) < room THEN Cardinality(rest) ELSE room
    IN [task EXCEPT !.buf = @ \o [j \in 1..more |-> "pending"]]

\* fetch_block_times_inner up to the first poll of block_stream, at the first
\* turn of the loop of fetch_block_times or when sleep(SLEEP_SECS) has ended.
BlockPassStart(tip) ==
    /\ up
    /\ block_task.pc \in {"loop", "sleep"}
    /\ tip \in TipHeights
    /\ block_task' = BlockBufferedFill(
            [pc |-> "stream",
             next_block_height |-> ResumeHeight,
             current_block_height |-> tip,
             head |-> ResumeHeight,
             buf |-> << >>])
    /\ UNCHANGED <<consensus, up, tables, observers, calls>>

\* get_block_hash and get_header_by_hash of one height of the window answer.
BlockHeaderOk(j) ==
    /\ up
    /\ block_task.pc = "stream"
    /\ j \in DOMAIN block_task.buf
    /\ block_task.buf[j] = "pending"
    /\ block_task' = [block_task EXCEPT !.buf[j] = "ready"]
    /\ UNCHANGED <<consensus, up, tables, observers, calls>>

\* get_block_hash or get_header_by_hash of one height of the window fails:
\* the fetch completes with Err, which the window holds until its turn.
BlockHeaderErr(j) ==
    /\ up
    /\ block_task.pc = "stream"
    /\ j \in DOMAIN block_task.buf
    /\ block_task.buf[j] = "pending"
    /\ block_task' = [block_task EXCEPT !.buf[j] = "failed"]
    /\ UNCHANGED <<consensus, up, tables, observers, calls>>

\* AfterPassError if the error left the loop of fetch_block_times: the task
\* is gone.
PassErrorEndsTask == BlockTask("off")

\* fetch_block_times when fetch_block_times_inner returned Err: warn, then
\* sleep(SLEEP_SECS) and the next turn of the loop.
AfterPassError == BlockTask("sleep")

\* One turn of `while let Some(..) = block_stream.next()` on an Ok item:
\* the row of the lowest height of the window is inserted; an insert the
\* primary key refuses returns its error through `?`.
BlockInsert ==
    /\ up
    /\ block_task.pc = "stream"
    /\ block_task.buf # << >>
    /\ block_task.buf[1] = "ready"
    /\ IF BlockTimesPrimaryKey(block_task.head)
       THEN /\ block_times' = Append(block_times, block_task.head)
            /\ block_task' = BlockBufferedFill(
                    [block_task EXCEPT !.head = @ + 1, !.buf = Tail(@)])
       ELSE /\ block_times' = block_times
            /\ block_task' = AfterPassError
    /\ UNCHANGED <<consensus, up, federations, session_tables, observers, calls>>

\* HeaderError if failed fetches were filtered out of the stream.
HeaderErrorSkipped(task) ==
    BlockBufferedFill([task EXCEPT !.head = @ + 1, !.buf = Tail(@)])

\* `.transpose()?` on an Err item: fetch_block_times_inner returns the error.
HeaderError(task) == AfterPassError

\* One turn of `while let Some(..) = block_stream.next()` on an Err item.
BlockYieldErr ==
    /\ up
    /\ block_task.pc = "stream"
    /\ block_task.buf # << >>
    /\ block_task.buf[1] = "failed"
    /\ block_task' = HeaderError(block_task)
    /\ UNCHANGED <<consensus, up, tables, observers, calls>>

\* BlockPassEnd if fetch_block_times had no loop: the task returns after
\* its first complete pass.
BlockPassEndReturns ==
    /\ up
    /\ block_task.pc = "stream"
    /\ block_task.buf = << >>
    /\ block_task' = BlockTask("off")
    /\ UNCHANGED <<consensus, up, tables, observers, calls>>

\* block_stream is exhausted: fetch_block_times_inner returns Ok and
\* fetch_block_times goes to sleep.
BlockPassEnd ==
    /\ up
    /\ block_task.pc = "stream"
    /\ block_task.buf = << >>
    /\ block_task' = BlockTask("sleep")
    /\ UNCHANGED <<consensus, up, tables, observers, calls>>

\* esplora's get_height fails: `?` returns the error before any header is
\* requested.
BlockTipErr ==
    /\ up
    /\ block_task.pc \in {"loop", "sleep"}
    /\ block_task' = AfterPassError
    /\ UNCHANGED <<consensus, up, tables, observers, calls>>

\* A persistence operation of the pass fails (acquiring the connection, the
\* MAX query, an insert): `?` returns the error.
BlockPassError ==
    /\ up
    /\ block_task.pc \in {"loop", "sleep", "stream"}
    /\ block_task' = AfterPassError
    /\ UNCHANGED <<consensus, up, tables, observers, calls>>

\* ------------------------------------------------------ process lifecycle
\* The process stops (shutdown or crash): the task group and every request
\* are gone, open transactions are rolled back, the database stays.
Shutdown ==
    /\ up
    /\ up' = FALSE
    /\ observers' = [f \in Feds |-> << >>]
    /\ block_task' = BlockTask("off")
    /\ calls' = [c \in Calls |-> IdleCall]
    /\ UNCHANGED <<consensus, tables>>

\* FederationObserver::new: one observer per row of list_federations, then
\* the block-time task.
new ==
    /\ ~up
    /\ up' = TRUE
    /\ observers' = [f \in Feds |-> IF f \in federations THEN << NewObserver >> ELSE << >>]
    /\ block_task' = NewBlockTask
    /\ UNCHANGED <<consensus, tables, calls>>

\* The state after new() on an empty database.
Boot ==
    /\ up = TRUE
    /\ federations = {}
    /\ sessions = [f \in Feds |-> << >>]
    /\ transactions = {}
    /\ transaction_inputs = {}
    /\ transaction_outputs = {}
    /\ block_times = << >>
    /\ observers = [f \in Feds |-> << >>]
    /\ block_task = NewBlockTask
    /\ calls = [c \in Calls |-> IdleCall]

\* The reference log of every federation.
ReferenceLog ==
    [f \in Feds |-> [n \in 1..ProducedSessions(f) |-> SignedSessionOutcome(f, n - 1)]]

Init == Boot /\ consensus = ReferenceLog

\* The registry, the session synchronizers and the process lifecycle.
SyncNext ==
    \/ \E c \in Calls, f \in Feds : AddFederationKnown(c, f)
    \/ \E c \in Calls, f \in Feds : AddFederationDownload(c, f)
    \/ \E c \in Calls, f \in Feds : AddFederationDownloadErr(c, f)
    \/ \E c \in Calls : AddFederationInsert(c)
    \/ \E f \in Feds : \E i \in DOMAIN observers[f] : ObserveStart(f, i)
    \/ \E f \in Feds : \E i \in DOMAIN observers[f], j \in 1..Window : AwaitBlockOk(f, i, j)
    \/ \E f \in Feds : \E i \in DOMAIN observers[f], j \in 1..Window : AwaitBlockErr(f, i, j)
    \/ \E f \in Feds : \E i \in DOMAIN observers[f], j \in 1..Window : RetrySleep(f, i, j)
    \/ \E f \in Feds : \E i \in DOMAIN observers[f] : StreamNext(f, i)
    \/ \E f \in Feds : \E i \in DOMAIN observers[f] : Execute(f, i)
    \/ \E f \in Feds : \E i \in DOMAIN observers[f] : Commit(f, i)
    \/ \E f \in Feds : \E i \in DOMAIN observers[f] : PersistenceError(f, i)
    \/ Shutdown
    \/ new

\* The block-time synchronizer within a pass.
BlockPassNext ==
    \/ \E j \in 1..BlockWindow : BlockHeaderOk(j)
    \/ \E j \in 1..BlockWindow : BlockHeaderErr(j)
    \/ BlockInsert
    \/ BlockYieldErr
    \/ BlockPassEnd
    \/ BlockTipErr
    \/ BlockPassError

\* The block-time synchronizer.
BlockNext ==
    \/ \E tip \in (FLOOR + 1)..(FLOOR + MaxBlocks) : BlockPassStart(tip)
    \/ BlockPassNext

Next == SyncNext \/ BlockNext

\* The whole system.
Spec == Init /\ [][Next]_vars

\* The system while the block-time task is not scheduled: that task shares
\* no table and no variable with the registry and the session synchronizers.
SyncSpec == Init /\ [][SyncNext]_vars

\* The block-time task and the process lifecycle alone, with a longer chain.
BackfillNext ==
    \/ \E tip \in (FLOOR + 1)..(FLOOR + MaxBackfill) : BlockPassStart(tip)
    \/ BlockPassNext
    \/ Shutdown
    \/ new

BlockSpec == Init /\ [][BackfillNext]_vars

\* Another observer process on the same database runs the same backfill and
\* gets its INSERT of the next height in first.
ForeignInsert ==
    /\ ResumeHeight <= FLOOR + MaxBackfill
    /\ block_times' = Append(block_times, ResumeHeight)
    /\ UNCHANGED <<consensus, up, federations, session_tables, observers, block_task, calls>>

\* The block-time task while a second writer shares the table.
SharedNext == BackfillNext \/ ForeignInsert

SharedSpec == Init /\ [][SharedNext]_vars


\* The system while persistence does not fail, config downloads succeed,
\* the process stays up and registrations arrive one at a time (concurrent
\* registrations never spawn a second synchronizer, see AddFederationInsert).
FairNext ==
    \/ \E f \in Feds : AddFederationKnown("req1", f)
    \/ \E f \in Feds : AddFederationDownload("req1", f)
    \/ AddFederationInsert("req1")
    \/ \E f \in Feds : \E i \in DOMAIN observers[f] : ObserveStart(f, i)
    \/ \E f \in Feds : \E i \in DOMAIN observers[f], j \in 1..Window : AwaitBlockOk(f, i, j)
    \/ \E f \in Feds : \E i \in DOMAIN observers[f], j \in 1..Window : AwaitBlockErr(f, i, j)
    \/ \E f \in Feds : \E i \in DOMAIN observers[f], j \in 1..Window : RetrySleep(f, i, j)
    \/ \E f \in Feds : \E i \in DOMAIN observers[f] : StreamNext(f, i)
    \/ \E f \in Feds : \E i \in DOMAIN observers[f] : Execute(f, i)
    \/ \E f \in Feds : \E i \in DOMAIN observers[f] : Commit(f, i)

\* The runtime schedules every task that can run (stated for the first task
\* spawned for each federation); the remote API answers an await_block that
\* is attempted again and again (strong fairness: an attempt may fail, but
\* not every attempt forever).
Fairness ==
    \A f \in Feds : \A i \in {1} :
        /\ WF_vars(ObserveStart(f, i))
        /\ WF_vars(StreamNext(f, i))
        /\ WF_vars(Execute(f, i))
        /\ WF_vars(Commit(f, i))
        /\ \A j \in 1..Window :
              /\ WF_vars(RetrySleep(f, i, j))
              /\ SF_vars(AwaitBlockOk(f, i, j))

FairSpec == Init /\ [][FairNext]_vars /\ Fairness

\* ------------------------------------------------------ decoder inputs
Amounts == 0..MaxAmount

\* Module kinds instance_to_kind may resolve to that the decoder has no arm for.
UnknownKinds == {"meta", "unknown"}

\* The inputs a transaction may carry: a v0 payload of each known module
\* with each amount, a payload of each known module that is not v0, and a
\* payload of a module the decoder does not know.
DrawnInputs ==
    {[kind |-> kind, version |-> "v0", value |-> v] : kind \in KnownKinds, v \in Amounts}
    \cup {[kind |-> kind, version |-> "default", value |-> 0] : kind \in KnownKinds}
    \cup {[kind |-> kind, version |-> "default", value |-> 0] : kind \in UnknownKinds}

\* The outputs a transaction may carry: every v0 variant of an ln output
\* (a contract of either kind with each amount, an offer, a cancellation), a
\* v0 mint or wallet output with each amount, a payload of each known module
\* that is not v0, and a payload of a module the decoder does not know.
DrawnOutputs ==
    {[kind |-> "ln", version |-> "v0", variant |-> "Contract", contract |-> c, value |-> v] :
        c \in {"Incoming", "Outgoing"}, v \in Amounts}
    \cup {[kind |-> "ln", version |-> "v0", variant |-> variant, contract |-> "none",
           value |-> MaxAmount] : variant \in {"Offer", "CancelOutgoing"}}
    \cup {[kind |-> kind, version |-> "v0", variant |-> "none", contract |-> "none", value |-> v] :
        kind \in {"mint", "wallet"}, v \in Amounts}
    \cup {[kind |-> kind, version |-> "default", variant |-> "none", contract |-> "none",
           value |-> 0] : kind \in KnownKinds \cup UnknownKinds}

\* The transactions DecodeSpec lets session 0 of fedA carry: one input, one
\* output, a valid input followed by any input, or a valid input and any output.
DrawnTransactions ==
    LET valid == [kind |-> "mint", version |-> "v0", value |-> 1]
    IN {[item |-> "transaction", txid |-> <<"fedA", 0, 0>>, inputs |-> ins, outputs |-> outs] :
          ins \in {<<input>> : input \in DrawnInputs}, outs \in {<< >>}}
       \cup {[item |-> "transaction", txid |-> <<"fedA", 0, 0>>, inputs |-> ins, outputs |-> outs] :
          ins \in {<<valid, input>> : input \in DrawnInputs}, outs \in {<< >>}}
       \cup {[item |-> "transaction", txid |-> <<"fedA", 0, 0>>, inputs |-> ins, outputs |-> outs] :
          ins \in {<< >>, <<valid>>}, outs \in {<<output>> : output \in DrawnOutputs}}

\* fedA serves one session with a drawn transaction, the other federations
\* their reference log.
DecodeInit ==
    /\ Boot
    /\ consensus \in {[ReferenceLog EXCEPT !["fedA"] = << <<transaction>> >>] :
                           transaction \in DrawnTransactions}

\* The system while nothing but the decoder fails: registrations arrive one
\* at a time, every fetch answers, persistence does not fail and the process
\* stays up.
DecodeNext ==
    \/ \E f \in Feds : AddFederationKnown("req1", f)
    \/ \E f \in Feds : AddFederationDownload("req1", f)
    \/ AddFederationInsert("req1")
    \/ \E f \in Feds : \E i \in DOMAIN observers[f] : ObserveStart(f, i)
    \/ \E f \in Feds : \E i \in DOMAIN observers[f], j \in 1..Window : AwaitBlockOk(f, i, j)
    \/ \E f \in Feds : \E i \in DOMAIN observers[f] : StreamNext(f, i)
    \/ \E f \in Feds : \E i \in DOMAIN observers[f] : Execute(f, i)
    \/ \E f \in Feds : \E i \in DOMAIN observers[f] : Commit(f, i)
    \/ \E f \in Feds : \E i \in DOMAIN observers[f] : DecodePanic(f, i)

DecodeSpec == DecodeInit /\ [][DecodeNext]_vars

\* ------------------------------------------------------ asset query
\* SUM(amount_msat) over a set of rows; SUM passes over NULL.
RECURSIVE SumAmountMsat(_)
SumAmountMsat(rows) ==
    IF rows = {} THEN 0
    ELSE LET row == CHOOSE row \in rows : TRUE
         IN (IF row.amount_msat = NULL THEN 0 ELSE row.amount_msat[1])
            + SumAmountMsat(rows \ {row})

\* (SELECT COALESCE(SUM(amount_msat), 0) FROM transaction_inputs WHERE ..) -
\* (SELECT COALESCE(SUM(amount_msat), 0) FROM transaction_outputs WHERE ..)
net_amount_msat(f) ==
    SumAmountMsat({row \in transaction_inputs :
                      row.kind = "wallet" /\ row.federation_id = f})
    - SumAmountMsat({row \in transaction_outputs :
                        row.kind = "wallet" /\ row.federation_id = f})

\* get_federation_assets once the query has answered: the difference is
\* cast to TEXT and parsed as the u64 of Amount::from_msats;
\* `.expect("DB returns valid number")` panics on the text of a negative
\* number.
get_federation_assets(f) ==
    IF net_amount_msat(f) >= 0
    THEN <<"ok", net_amount_msat(f)>>
    ELSE <<"panic", 0>>

\* A get_federation_assets(f) request whose query answers.
GetFederationAssets(c, f) ==
    /\ up
    /\ calls[c].pc = "idle"
    /\ calls' = [calls EXCEPT ![c] =
            [pc |-> "idle", invite |-> f, ret |-> get_federation_assets(f)]]
    /\ UNCHANGED <<consensus, up, tables, observers, block_task>>

\* A get_federation_assets(f) request that gets no connection or whose
\* query fails: `?` returns the error.
GetFederationAssetsErr(c, f) ==
    /\ up
    /\ calls[c].pc = "idle"
    /\ calls' = [calls EXCEPT ![c] = [pc |-> "idle", invite |-> f, ret |-> <<"err", 0>>]]
    /\ UNCHANGED <<consensus, up, tables, observers, block_task>>

\* The inputs and outputs AssetsSpec lets fedA's transaction carry: wallet
\* and mint payloads of 1 .. MaxAmount.
AssetInputs ==
    {[kind |-> kind, version |-> "v0", value |-> v] :
        kind \in {"wallet", "mint"}, v \in 1..MaxAmount}

AssetOutputs ==
    {[kind |-> kind, version |-> "v0", variant |-> "none", contract |-> "none", value |-> v] :
        kind \in {"wallet", "mint"}, v \in 1..MaxAmount}

\* Session 0 of fedA in AssetsSpec: one transaction with no input, one
\* input, or a wallet input of MaxAmount followed by one input, and outputs
\* likewise.
AssetTransactions ==
    {[item |-> "transaction", txid |-> <<"fedA", 0, 0>>, inputs |-> ins, outputs |-> outs] :
        ins \in {<< >>} \cup {<<a>> : a \in AssetInputs}
                \cup {<<[kind |-> "wallet", version |-> "v0", value |-> MaxAmount], a>> :
                         a \in AssetInputs},
        outs \in {<< >>} \cup {<<a>> : a \in AssetOutputs}
                 \cup {<<[kind |-> "wallet", version |-> "v0", variant |-> "none",
                          contract |-> "none", value |-> MaxAmount], a>> :
                          a \in AssetOutputs}}

AssetsInit ==
    /\ Boot
    /\ consensus \in {[ReferenceLog EXCEPT !["fedA"] = << <<transaction>> >>] :
                           transaction \in AssetTransactions}

\* Ingestion without failures, with asset queries arriving at any time.
AssetsNext ==
    \/ \E f \in Feds : AddFederationKnown("req1", f)
    \/ \E f \in Feds : AddFederationDownload("req1", f)
    \/ AddFederationInsert("req1")
    \/ \E f \in Feds : \E i \in DOMAIN observers[f] : ObserveStart(f, i)
    \/ \E f \in Feds : \E i \in DOMAIN observers[f], j \in 1..Window : AwaitBlockOk(f, i, j)
    \/ \E f \in Feds : \E i \in DOMAIN observers[f] : StreamNext(f, i)
    \/ \E f \in Feds : \E i \in DOMAIN observers[f] : Execute(f, i)
    \/ \E f \in Feds : \E i \in DOMAIN observers[f] : Commit(f, i)
    \/ \E f \in Feds : GetFederationAssets("req2", f)
    \/ \E f \in Feds : GetFederationAssetsErr("req2", f)

AssetsSpec == AssetsInit /\ [][AssetsNext]_vars

\* ------------------------------------------------------ connection pool
\* HoldsConnection if the connection were acquired before the stream is
\* polled and kept across the wait for the next session.
HoldsConnectionWhileFetching(task) == task.pc \in {"stream", "process"}

\* A synchronizer holds a pooled connection from `self.connection().await?`
\* in process_session until its transaction has ended; the queries of
\* federation_session_count and add_federation take and return theirs
\* within one step.
HoldsConnection(task) == task.pc = "process"

ConnectionsInUse ==
    Cardinality({t \in UNION {{<<f, i>> : i \in DOMAIN observers[f]} : f \in Feds} :
                    HoldsConnection(observers[t[1]][t[2]])})

\* connection(): connection_pool.acquire() returns once a connection is free.
connection == ConnectionsInUse < PoolSize

\* The federation whose consensus API never answers.
Stalled == "fedA"

\* The system while the API of federation Stalled answers no await_block,
\* persistence does not fail and the process stays up; every step that
\* acquires a connection waits for a free one.
StallNext ==
    \/ \E f \in Feds : connection /\ AddFederationKnown("req1", f)
    \/ \E f \in Feds : connection /\ AddFederationDownload("req1", f)
    \/ connection /\ AddFederationInsert("req1")
    \/ \E f \in Feds : \E i \in DOMAIN observers[f] : connection /\ ObserveStart(f, i)
    \/ \E f \in Feds \ {Stalled} : \E i \in DOMAIN observers[f], j \in 1..Window : AwaitBlockOk(f, i, j)
    \/ \E f \in Feds : \E i \in DOMAIN observers[f], j \in 1..Window : AwaitBlockErr(f, i, j)
    \/ \E f \in Feds : \E i \in DOMAIN observers[f], j \in 1..Window : RetrySleep(f, i, j)
    \/ \E f \in Feds : \E i \in DOMAIN observers[f] : connection /\ StreamNext(f, i)
    \/ \E f \in Feds : \E i \in DOMAIN observers[f] : Execute(f, i)
    \/ \E f \in Feds : \E i \in DOMAIN observers[f] : Commit(f, i)

\* The runtime schedules every task that can run and the APIs of the other
\* federations answer an await_block that is attempted again and again.
StallFairness ==
    \A f \in Feds : \A i \in {1} :
        /\ WF_vars(connection /\ ObserveStart(f, i))
        /\ WF_vars(connection /\ StreamNext(f, i))
        /\ WF_vars(Execute(f, i))
        /\ WF_vars(Commit(f, i))
        /\ \A j \in 1..Window :
              /\ WF_vars(RetrySleep(f, i, j))
              /\ f # Stalled => SF_vars(AwaitBlockOk(f, i, j))

StallSpec == Init /\ [][StallNext]_vars /\ StallFairness

\* ================================================================ claims
TableRows(table) ==
    CASE table = "transactions"        -> transactions
      [] table = "transaction_inputs"  -> transaction_inputs
      [] table = "transaction_outputs" -> transaction_outputs

DerivedTables == {"transactions", "transaction_inputs", "transaction_outputs"}

\* Every row the statements of session k of f insert into a table.
DerivedRows(f, k, table) ==
    StatementRows(f, k, Len(SessionStatements(f, k)), table)

\* C1: for every federation the committed session indices, in the order they
\* were committed, are exactly 0,1,...,k-1: no gap, and no index is
\* committed before a lower one, whatever order the fetches complete in.
C1_GapFreeOrderedCommit ==
    \A f \in Feds : \A n \in DOMAIN sessions[f] : sessions[f][n] = n - 1

\* C1 witness: session 0 is committed and session 1, whose fetch finished
\* before that of session 0, is still held in the window.
C1_Witness ==
    \E f \in Feds : \E i \in DOMAIN observers[f] :
        /\ sessions[f] = <<0>>
        /\ observers[f][i].pc = "stream"
        /\ observers[f][i].next_session = 0
        /\ observers[f][i].head = 1
        /\ observers[f][i].buf[1] = "ready_early"

\* C2: in every state the session row of (f,k) and all rows derived from
\* session k are present together, or none of them is.
C2_AtomicCommit ==
    \A f \in Feds : \A k \in 0..(NumSessions - 1) :
        IF k \in Range(sessions[f])
        THEN \A table \in DerivedTables : DerivedRows(f, k, table) \subseteq TableRows(table)
        ELSE \A table \in DerivedTables : DerivedRows(f, k, table) \cap TableRows(table) = {}

\* C2 witness: a task ended by a persistence failure after two statements of
\* session 0 (the session row and a transaction row), and no row of session 0
\* is visible.
C2_Witness ==
    \E f \in Feds : \E i \in DOMAIN observers[f] :
        /\ observers[f][i].pc = "done"
        /\ observers[f][i].head = 1
        /\ observers[f][i].session_index = 0
        /\ observers[f][i].stmt = 2
        /\ sessions[f] = << >>
        /\ \A table \in DerivedTables : DerivedRows(f, 0, table) \cap TableRows(table) = {}

\* C3: the next index a running synchronizer commits is always the number of
\* sessions already committed for its federation (so a restarted synchronizer
\* resumes at k when [0,k) is committed), and no session index is ever
\* stored twice.
C3_IdempotentResume ==
    \A f \in Feds :
        /\ \A i \in DOMAIN observers[f] :
              /\ observers[f][i].pc = "stream"
                    => /\ observers[f][i].head = Len(sessions[f])
                       /\ observers[f][i].next_session <= observers[f][i].head
              /\ observers[f][i].pc = "process"
                    => observers[f][i].session_index = Len(sessions[f])
        /\ \A a, b \in DOMAIN sessions[f] : a # b => sessions[f][a] # sessions[f][b]

\* C3 witness: after a restart with session 0 committed, the new synchronizer
\* has resumed at index 1 and is fetching it.
C3_Witness ==
    \E f \in Feds : \E i \in DOMAIN observers[f] :
        /\ sessions[f] = <<0>>
        /\ observers[f][i].pc = "stream"
        /\ observers[f][i].next_session = 1
        /\ observers[f][i].head = 1

\* C4 as stated: a session whose commit fails is retried from fetch by the
\* synchronizer: after the failure the task is polling the stream again and
\* the failed index is the next one the stream yields.
C4_RetriesFailedSession ==
    [][\A f \in Feds : \A i \in DOMAIN observers[f] :
          (PersistenceError(f, i) /\ observers[f][i].pc = "process")
          => /\ observers'[f][i].pc = "stream"
             /\ observers'[f][i].head = observers[f][i].session_index]_vars

\* C4 amended: when the commit of session k fails the task ends and no row
\* of k becomes visible; while the ended task stays, k is uncommitted and no
\* higher index is committed (k is never skipped).  k is fetched again only
\* by the synchronizer a restart spawns.
C4_FailedCommitEndsTask ==
    /\ [][\A f \in Feds : \A i \in DOMAIN observers[f] :
            (PersistenceError(f, i) /\ observers[f][i].pc = "process")
            => /\ observers'[f][i].pc = "done"
               /\ observers'[f][i].session_index = observers[f][i].session_index
               /\ UNCHANGED session_tables]_vars
    /\ [](\A f \in Feds : \A i \in DOMAIN observers[f] :
            (observers[f][i].pc = "done" /\ observers[f][i].head >= 1)
            => \A k \in Range(sessions[f]) : k < observers[f][i].session_index)

\* C4 witness: the commit of session 1 failed after its statement ran; the
\* task has ended and only session 0 is committed.
C4_Witness ==
    \E f \in Feds : \E i \in DOMAIN observers[f] :
        /\ observers[f][i].pc = "done"
        /\ observers[f][i].session_index = 1
        /\ observers[f][i].head = 2
        /\ observers[f][i].stmt = 1
        /\ sessions[f] = <<0>>

\* C5 as stated: while the process is up no synchronizer task has ended.
C5_NeverTerminates ==
    \A f \in Feds : \A i \in DOMAIN observers[f] : observers[f][i].pc # "done"

\* C5 amended: while the process stays up a synchronizer task never
\* disappears, and it ends only by a failure of its own: of one of its
\* database operations (the resume query or the processing of a session) or
\* of the decoding of a payload, never while it waits on the session stream.
C5_EndsOnlyOnOwnFailure ==
    [][\A f \in Feds : \A i \in DOMAIN observers[f] :
          (up /\ up')
          => /\ i \in DOMAIN observers'[f]
             /\ (/\ observers[f][i].pc \notin {"done", "panicked"}
                 /\ observers'[f][i].pc \in {"done", "panicked"})
                   => /\ observers[f][i].pc \in {"start", "process"}
                      /\ PersistenceError(f, i) \/ DecodePanic(f, i)]_vars

\* C5 witness: every session the federation has produced is committed and
\* the task is still running, waiting on fetches that keep failing.
C5_Witness ==
    \E f \in Feds : \E i \in DOMAIN observers[f] :
        /\ Len(sessions[f]) = RemoteSessions(f)
        /\ observers[f][i].pc = "stream"
        /\ observers[f][i].head = RemoteSessions(f)
        /\ observers[f][i].buf = [j \in 1..Window |-> "backoff"]

C7_FetchFailuresAbsorbed ==
    /\ [][\A f \in Feds : \A i \in DOMAIN observers[f] : \A j \in 1..Window :
            AwaitBlockErr(f, i, j)
            => /\ up'
               /\ observers'[f][i].pc = "stream"
               /\ observers'[f][i].head = observers[f][i].head
               /\ Len(observers'[f][i].buf) = Len(observers[f][i].buf)
               /\ observers'[f][i].buf[j] = "backoff"
               /\ \A m \in DOMAIN observers[f][i].buf :
                     m # j => observers'[f][i].buf[m] = observers[f][i].buf[m]
               /\ UNCHANGED <<consensus, tables>>]_vars
    /\ [](\A f \in Feds : \A i \in DOMAIN observers[f] :
            \A j \in DOMAIN observers[f][i].buf :
               (observers[f][i].pc = "stream" /\ observers[f][i].buf[j] = "backoff")
               => ENABLED RetrySleep(f, i, j))

\* C7 witness: the fetch of session 0 failed and sleeps, and the task goes on.
C7_Witness ==
    \E f \in Feds : \E i \in DOMAIN observers[f] :
        /\ observers[f][i].pc = "stream"
        /\ observers[f][i].head = 0
        /\ observers[f][i].buf[1] = "backoff"
        /\ sessions[f] = << >>

\* C8: a persistence failure in one federation's synchronizer ends that task
\* only: the process stays up and every other federation's tasks and rows,
\* the block-time task and the requests are untouched; and while all tasks
\* of a federation have ended its committed sessions do not change.
C8_FailureIsolation ==
    /\ [][\A f \in Feds : \A i \in DOMAIN observers[f] :
            PersistenceError(f, i)
            => /\ up'
               /\ observers'[f][i].pc = "done"
               /\ \A g \in Feds \ {f} :
                     /\ observers'[g] = observers[g]
                     /\ sessions'[g] = sessions[g]
               /\ block_task' = block_task
               /\ block_times' = block_times
               /\ calls' = calls]_vars
    /\ [][\A f \in Feds :
            (/\ up'
             /\ observers[f] # << >>
             /\ \A i \in DOMAIN observers[f] : observers[f][i].pc = "done")
            => sessions'[f] = sessions[f]]_vars

\* C8 witness: fedA's task has ended on a failed commit of session 0 while
\* fedB's synchronizer can commit its session and the block-time task can
\* insert a height.
C8_Witness ==
    /\ up
    /\ observers["fedA"] # << >>
    /\ observers["fedA"][1].pc = "done"
    /\ observers["fedA"][1].head = 1
    /\ sessions["fedA"] = << >>
    /\ ENABLED Commit("fedB", 1)
    /\ ENABLED BlockInsert

\* C9 as stated: whenever two add_federation requests for the same invite
\* have both returned, neither on a failed config download, both returned
\* the federation id, the federation is registered and exactly one
\* synchronizer exists for it.
C9_RegistrationIdempotent ==
    \A c, d \in Calls :
        (/\ c # d
         /\ calls[c].pc = "idle" /\ calls[d].pc = "idle"
         /\ calls[c].invite = calls[d].invite
         /\ calls[c].ret \in {"ok", "insert_err"}
         /\ calls[d].ret \in {"ok", "insert_err"})
        => /\ calls[c].ret = "ok" /\ calls[d].ret = "ok"
           /\ calls[c].invite \in federations
           /\ Len(observers[calls[c].invite]) = 1

\* C10: a request whose config download fails returns that error and
\* changes no table and no task.
C10_RegistrationFailureClean ==
    [][\A c \in Calls : \A f \in Feds :
          AddFederationDownloadErr(c, f)
          => /\ calls'[c].ret = "download_err"
             /\ calls'[c].pc = "idle"
             /\ UNCHANGED <<consensus, up, tables, observers, block_task>>]_vars

\* C10 witness: a request for fedA returned the download error and fedA is
\* neither registered nor observed.
C10_Witness ==
    \E c \in Calls :
        /\ calls[c].ret = "download_err"
        /\ calls[c].invite = "fedA"
        /\ "fedA" \notin federations
        /\ observers["fedA"] = << >>

\* C11: in every state at most one synchronizer task exists for each
\* federation, and only for a registered federation, whatever add_federation
\* requests interleave and however often the process restarts; so the rows
\* of a federation have at most one writer.
C11_SingleWriter ==
    \A f \in Feds :
        /\ Len(observers[f]) <= 1
        /\ observers[f] # << >> => f \in federations

\* C11 witness: two requests for the same new invite raced, both have
\* returned, one with the insert refused, and the federation has one task.
C11_Witness ==
    \E c, d \in Calls :
        /\ c # d
        /\ calls[c].pc = "idle" /\ calls[c].ret = "ok"
        /\ calls[d].pc = "idle" /\ calls[d].ret = "insert_err"
        /\ calls[c].invite = calls[d].invite
        /\ Len(observers[calls[c].invite]) = 1
        /\ observers[calls[c].invite][1].pc = "process"

\* C12: while the API of one federation never answers, every other
\* federation whose synchronizer was spawned still gets all its sessions
\* committed; and whenever every synchronizer is waiting on its fetches no
\* connection of the pool is in use.
C12_StallIndependence ==
    /\ \A f \in Feds \ {Stalled} :
          (observers[f] # << >>) ~> (Range(sessions[f]) = 0..(RemoteSessions(f) - 1))
    /\ []((\A f \in Feds : \A i \in DOMAIN observers[f] : observers[f][i].pc = "stream")
            => ConnectionsInUse = 0)

\* C12 witness: the stalled federation's synchronizer has every fetch of its
\* window asleep after a failure and nothing committed, while the other
\* federation's sessions are all committed.
C12_Witness ==
    /\ observers[Stalled] # << >>
    /\ observers[Stalled][1].pc = "stream"
    /\ observers[Stalled][1].buf = [j \in 1..Window |-> "backoff"]
    /\ sessions[Stalled] = << >>
    /\ \E f \in Feds \ {Stalled} :
          /\ observers[f] # << >>
          /\ Range(sessions[f]) = 0..(RemoteSessions(f) - 1)
          /\ sessions[f] # << >>

\* The heights a, a+1, ..., b in ascending order.
Heights(a, b) == [n \in 1..(b - a + 1) |-> a + n - 1]

\* C13: a pass starts at 1 + the highest persisted height, or at FLOOR + 1
\* on an empty table; when it completes without error with tip T the rows
\* it appended are exactly one per height of [resume, T] in ascending
\* order, after the rows that were there; started on an empty table, the
\* table is then exactly [FLOOR + 1, T].
C13_Backfill ==
    /\ [][(block_task.pc # "stream" /\ block_task'.pc = "stream")
            => block_task'.next_block_height =
                  (IF block_times = << >> THEN FLOOR + 1
                   ELSE Max(Range(block_times)) + 1)]_vars
    /\ [][BlockPassEnd
            => LET resume == block_task.next_block_height
                   tip == block_task.current_block_height
                   Before(h) == h < resume
                   During(h) == h >= resume
               IN /\ SelectSeq(block_times, During) = Heights(resume, tip)
                  /\ block_times = SelectSeq(block_times, Before) \o Heights(resume, tip)
                  /\ resume = FLOOR + 1 => block_times = Heights(FLOOR + 1, tip)]_vars

\* C13 witness: a pass that started on the empty table with the highest tip
\* has inserted every height and is about to return Ok.
C13_Witness ==
    /\ block_task.pc = "stream"
    /\ block_task.next_block_height = FLOOR + 1
    /\ block_task.current_block_height = FLOOR + MaxBackfill
    /\ block_task.buf = << >>
    /\ block_times = Heights(FLOOR + 1, FLOOR + MaxBackfill)

\* C14: in every state the persisted heights, in insertion order, are the
\* consecutive heights from the first one inserted, which is FLOOR + 1.
C14_BlockHeightsGapFree ==
    /\ \A n \in DOMAIN block_times : block_times[n] = block_times[1] + n - 1
    /\ block_times # << >> => block_times[1] = FLOOR + 1

\* C14 witness: a later pass, resumed at FLOOR + 2, has inserted that height
\* and is about to be aborted by the failed fetch of FLOOR + 3 while the
\* header of FLOOR + 4 has already arrived.
C14_Witness ==
    /\ block_task.pc = "stream"
    /\ block_task.next_block_height = FLOOR + 2
    /\ block_task.head = FLOOR + 3
    /\ Len(block_task.buf) >= 2
    /\ block_task.buf[1] = "failed"
    /\ block_task.buf[2] = "ready"
    /\ block_times = <<FLOOR + 1, FLOOR + 2>>

\* C15 as stated: an INSERT of a height that is already persisted leaves
\* the table unchanged and the pass goes on.
C15_DuplicateIsNoOp ==
    [][(BlockInsert /\ ~BlockTimesPrimaryKey(block_task.head))
          => /\ block_times' = block_times
             /\ block_task'.pc = "stream"]_vars

\* C16 as stated: a failed header request never aborts the pass in progress.
C16_FetchFailuresRetried ==
    [][BlockYieldErr => block_task'.pc = "stream"]_vars

\* C16 amended: a failed tip or header request aborts the pass and nothing
\* else: the rows inserted so far and every other task stay, the task goes
\* to sleep, from where the next pass can always start, and that pass
\* resumes at the height whose request had failed.
C16_FetchFailureAbortsPassOnly ==
    /\ [][(BlockYieldErr \/ BlockTipErr)
            => /\ block_task'.pc = "sleep"
               /\ UNCHANGED <<consensus, up, tables, observers, calls>>]_vars
    /\ [][BlockYieldErr => ResumeHeight' = block_task.head]_vars
    /\ [](block_task.pc = "sleep"
            => ENABLED (\E tip \in (FLOOR + 1)..(FLOOR + MaxBackfill) : BlockPassStart(tip)))

\* C16 witness: a pass started on the empty table has inserted FLOOR + 1 and
\* the request for FLOOR + 2 has failed.
C16_Witness ==
    /\ block_task.pc = "stream"
    /\ block_task.next_block_height = FLOOR + 1
    /\ block_task.head = FLOOR + 2
    /\ block_task.buf # << >>
    /\ block_task.buf[1] = "failed"
    /\ block_times = <<FLOOR + 1>>

\* --------------------------------------------------- claims on the decoder
\* The payload the API served for a row of transaction_inputs.
InputOf(row) ==
    consensus[row.federation_id][row.txid[2] + 1][row.txid[3] + 1].inputs[row.idx + 1]

\* The payload the API served for a row of transaction_outputs.
OutputOf(row) ==
    consensus[row.federation_id][row.txid[2] + 1][row.txid[3] + 1].outputs[row.idx + 1]

\* A payload of module ln, mint or wallet that is not a v0 payload.
InvalidPayload(payload) ==
    payload.kind \in {"ln", "mint", "wallet"} /\ payload.version # "v0"

\* Session k of federation f carries an invalid payload.
CarriesInvalidPayload(f, k) ==
    \E n \in DOMAIN consensus[f][k + 1] :
        /\ consensus[f][k + 1][n].item = "transaction"
        /\ \/ \E m \in DOMAIN consensus[f][k + 1][n].inputs :
                  InvalidPayload(consensus[f][k + 1][n].inputs[m])
           \/ \E m \in DOMAIN consensus[f][k + 1][n].outputs :
                  InvalidPayload(consensus[f][k + 1][n].outputs[m])

\* Some row of session k of federation f is visible in the database.
SessionRowsVisible(f, k) ==
    \/ k \in Range(sessions[f])
    \/ \E row \in transactions : row.federation_id = f /\ row.session_index = k
    \/ \E row \in transaction_inputs \cup transaction_outputs :
           row.federation_id = f /\ row.txid[2] = k

C18_UnknownModuleTolerated ==
    /\ \A row \in transaction_inputs :
          InputOf(row).kind \notin {"ln", "mint", "wallet"}
          => /\ row.kind = InputOf(row).kind
             /\ row.subtype = NULL
             /\ row.amount_msat = NULL
    /\ \A row \in transaction_outputs :
          OutputOf(row).kind \notin {"ln", "mint", "wallet"}
          => /\ row.kind = OutputOf(row).kind
             /\ row.subtype = NULL
             /\ row.amount_msat = NULL
    /\ \A f \in Feds : \A k \in Range(sessions[f]) : \A n \in DOMAIN consensus[f][k + 1] :
          consensus[f][k + 1][n].item = "transaction"
          => /\ \A m \in DOMAIN consensus[f][k + 1][n].inputs :
                   \E row \in transaction_inputs :
                       /\ row.federation_id = f
                       /\ row.txid = consensus[f][k + 1][n].txid
                       /\ row.idx = m - 1
             /\ \A m \in DOMAIN consensus[f][k + 1][n].outputs :
                   \E row \in transaction_outputs :
                       /\ row.federation_id = f
                       /\ row.txid = consensus[f][k + 1][n].txid
                       /\ row.idx = m - 1
    /\ \A f \in Feds : \A i \in DOMAIN observers[f] :
          ~CarriesInvalidPayload(f, observers[f][i].session_index)
          => /\ observers[f][i].pc # "panicked"
             /\ observers[f][i].pc = "process"
                   => (ENABLED Execute(f, i)) \/ (ENABLED Commit(f, i))

\* C18 witness: fedA's session is committed and its transaction has an
\* output of module "meta" stored with null subtype and null amount.
C18_Witness ==
    /\ sessions["fedA"] = <<0>>
    /\ \E row \in transaction_outputs :
          /\ row.federation_id = "fedA"
          /\ row.kind = "meta"
          /\ row.subtype = NULL
          /\ row.amount_msat = NULL

\* C19: an ln output that funds a contract is stored with subtype
\* "incoming" or "outgoing" after the kind of contract and with the
\* contract's amount; an ln offer or cancellation is stored with amount 0
\* and subtype null; every input is stored with subtype null.
C19_LnOutputDispatch ==
    /\ \A row \in transaction_outputs :
          OutputOf(row).kind = "ln"
          => IF OutputOf(row).variant = "Contract"
             THEN /\ row.amount_msat = Some(OutputOf(row).value)
                  /\ OutputOf(row).contract = "Incoming" => row.subtype = Some("incoming")
                  /\ OutputOf(row).contract = "Outgoing" => row.subtype = Some("outgoing")
                  /\ OutputOf(row).contract \in {"Incoming", "Outgoing"}
             ELSE /\ OutputOf(row).variant \in {"Offer", "CancelOutgoing"}
                  /\ row.amount_msat = Some(0)
                  /\ row.subtype = NULL
    /\ \A row \in transaction_inputs : row.subtype = NULL

\* C19 witness: a committed ln output funding an outgoing contract of
\* MaxAmount msat, stored as such, next to a stored input.
C19_Witness ==
    /\ \E row \in transaction_outputs :
          /\ OutputOf(row).kind = "ln"
          /\ OutputOf(row).contract = "Outgoing"
          /\ row.subtype = Some("outgoing")
          /\ row.amount_msat = Some(MaxAmount)
    /\ \E row \in transaction_inputs : row.federation_id = "fedA"

\* C20: a wallet input or output of v satoshis is stored with
\* amount_msat = v * 1000; a mint input or output, an ln input and an ln
\* contract are stored with the amount they carry.
C20_UnitNormalization ==
    /\ \A row \in transaction_inputs :
          /\ InputOf(row).kind = "wallet"
                => row.amount_msat = Some(InputOf(row).value * 1000)
          /\ InputOf(row).kind \in {"ln", "mint"}
                => row.amount_msat = Some(InputOf(row).value)
    /\ \A row \in transaction_outputs :
          /\ OutputOf(row).kind = "wallet"
                => row.amount_msat = Some(OutputOf(row).value * 1000)
          /\ OutputOf(row).kind = "mint"
                => row.amount_msat = Some(OutputOf(row).value)
          /\ (OutputOf(row).kind = "ln" /\ OutputOf(row).variant = "Contract")
                => row.amount_msat = Some(OutputOf(row).value)

\* C20 witness: fedA's wallet output of 1 sat is stored with 1000 msat and
\* fedB's wallet input of 1 sat likewise.
C20_Witness ==
    /\ \E row \in transaction_outputs :
          /\ row.federation_id = "fedA"
          /\ OutputOf(row).kind = "wallet"
          /\ OutputOf(row).value = 1
          /\ row.amount_msat = Some(1000)
    /\ \E row \in transaction_inputs :
          /\ row.federation_id = "fedB"
          /\ InputOf(row).kind = "wallet"
          /\ row.amount_msat = Some(1000)

\* C21 as stated: in every state of the database get_federation_assets(f)
\* returns the sum of amount_msat over f's wallet input rows minus the sum
\* over f's wallet output rows, rows of other kinds and of other
\* federations left out and an empty sum counted as 0.
C21_AssetsAreInputsMinusOutputs ==
    [][\A f \in Feds :
          GetFederationAssets("req2", f)
          => calls'["req2"].ret =
                <<"ok",
                  SumAmountMsat({row \in transaction_inputs :
                                    row.kind = "wallet" /\ row.federation_id = f})
                  - SumAmountMsat({row \in transaction_outputs :
                                      row.kind = "wallet" /\ row.federation_id = f})>>]_vars

\* The sessions a synchronizer task holds: those whose fetch is in the
\* window, finished or not, and the one it has taken out and is processing.
HeldSessions(t) ==
    {t.head + j - 1 : j \in DOMAIN t.buf}
    \cup (IF t.pc = "process" THEN {t.session_index} ELSE {})

\* C22: a running synchronizer of federation f whose next index to commit
\* is n holds at most Window sessions, fetching or fetched and not yet
\* committed, each with an index in [n, n + Window); a task that is not
\* running holds none.
C22_BoundedPrefetchWindow ==
    \A f \in Feds : \A i \in DOMAIN observers[f] :
        IF observers[f][i].pc \in {"stream", "process"}
        THEN /\ Len(observers[f][i].buf)
                   + (IF observers[f][i].pc = "process" THEN 1 ELSE 0) <= Window
             /\ Cardinality(HeldSessions(observers[f][i])) <= Window
             /\ \A k \in HeldSessions(observers[f][i]) :
                   /\ federation_session_count(f) <= k
                   /\ k < federation_session_count(f) + Window
        ELSE observers[f][i].buf = << >>

\* C22 witness: session 0 is committed and the window has slid: the task is
\* processing session 1 and the fetches of the Window - 1 sessions after it
\* are in the window.
C22_Witness ==
    \E f \in Feds : \E i \in DOMAIN observers[f] :
        /\ observers[f][i].pc = "process"
        /\ observers[f][i].session_index = 1
        /\ sessions[f] = <<0>>
        /\ Len(observers[f][i].buf) = Window - 1
        /\ HeldSessions(observers[f][i]) = 1..Window

\* C23: while the process is up the block-time task exists; whenever a pass
\* is over, completed or aborted by a failed request or a persistence
\* error, the task is asleep with nothing of the pass left; from its sleep a
\* new pass can always start, and every pass starts at the height after the
\* highest one persisted at that moment (FLOOR + 1 on an empty table).
C23_BlockTaskRepeatsForever ==
    /\ [](up => block_task.pc \in {"loop", "sleep", "stream"})
    /\ [][(up /\ up' /\ block_task.pc = "stream" /\ block_task'.pc # "stream")
            => block_task' = [pc |-> "sleep", next_block_height |-> 0,
                              current_block_height |-> 0, head |-> 0, buf |-> << >>]]_vars
    /\ [][(up /\ up' /\ block_task.pc # "stream")
            => block_task'.pc \in {"sleep", "stream"}]_vars
    /\ [][(block_task.pc # "stream" /\ block_task'.pc = "stream")
            => /\ block_task.pc \in {"loop", "sleep"}
               /\ block_task'.next_block_height =
                     IF block_times = << >> THEN FLOOR + 1
                     ELSE Max(Range(block_times)) + 1
               /\ block_task'.head = block_task'.next_block_height]_vars
    /\ []((up /\ block_task.pc = "sleep")
            => \A tip \in (FLOOR + 1)..(FLOOR + MaxBackfill) :
                  (\A b \in Range(block_times) : b <= tip) => ENABLED BlockPassStart(tip))

\* C23 witness: with FLOOR + 1 persisted by an earlier pass, a new pass has
\* started at FLOOR + 2 and none of its requests has answered yet.
C23_Witness ==
    /\ up
    /\ block_times = <<FLOOR + 1>>
    /\ block_task.pc = "stream"
    /\ block_task.next_block_height = FLOOR + 2
    /\ block_task.head = FLOOR + 2
    /\ block_task.current_block_height > FLOOR + 2
    /\ \A j \in DOMAIN block_task.buf : block_task.buf[j] = "pending"

====
